---- MODULE Spec2Model ----
(***************************************************************************)
(* Model of package libuspin (src/src/libuspin/main.go): the image-spec    *)
(* loader NewImageSpec and the operation dispatcher ApplyOperations, run   *)
(* by a single-threaded caller against a package manager and the config /  *)
(* package-list parsers.                                                   *)
(***************************************************************************)
EXTENDS Integers, Sequences, FiniteSets, TLC

VARIABLES pc, ops, idx, names, calls, ret, repos,
          spinFile, conf, is, pkgsFile, lcalls, lret

vars == <<pc, ops, idx, names, calls, ret, repos,
          spinFile, conf, is, pkgsFile, lcalls, lret>>

applyVars == <<ops, idx, names, calls, ret>>
loadVars == <<spinFile, conf, is, pkgsFile, lcalls, lret>>

(***************************************************************************)
(* Bounds                                                                  *)
(***************************************************************************)
MaxOps == 3

(***************************************************************************)
(* Errors                                                                  *)
(***************************************************************************)
nil == "nil"
ErrNotEnoughOps == "Internal error: 0 args passed to ApplyOperations"
ErrUnknownOperation == "Unknown or unsupported operation requested"
\* errors a pkg.Manager implementation may hand back
ManagerErrors == {"manager error 1", "manager error 2"}

(***************************************************************************)
(* spec.Operation variants, as main.go uses them                           *)
(***************************************************************************)
OpRepo(n, u) == [kind |-> "OpRepo", RepoName |-> n, RepoURI |-> u]
OpGroup(g, s) == [kind |-> "OpGroup", GroupName |-> g, IgnoreSafety |-> s]
OpPackage(p, s) == [kind |-> "OpPackage", Name |-> p, IgnoreSafety |-> s]
\* any other implementation of spec.Operation
OpOther == [kind |-> "OpOther"]

RepoOps == {OpRepo("a", "u1"), OpRepo("b", "u2"), OpRepo("a", "u2")}
GroupOps == {OpGroup(g, s) : g \in {"g1", "g2"}, s \in BOOLEAN}
PackageOps == {OpPackage(p, s) : p \in {"p1", "p2"}, s \in BOOLEAN}
Operations == RepoOps \cup GroupOps \cup PackageOps \cup {OpOther}

OpLists == UNION {[1..n -> Operations] : n \in 0..MaxOps}

(***************************************************************************)
(* Strings are sequences of one-character strings, so that the suffix test *)
(* and the path functions work on characters.                              *)
(***************************************************************************)
\* strings.HasSuffix
HasSuffix(s, suffix) ==
    /\ Len(s) >= Len(suffix)
    /\ SubSeq(s, Len(s) - Len(suffix) + 1, Len(s)) = suffix

\* the suffix NewImageSpec asks for
SpinSuffix == <<".", "s", "p", "i", "n">>

\* the test NewImageSpec puts on its argument
IsSpinFileNoDot(path) == HasSuffix(path, <<"s", "p", "i", "n">>)

IsSpinFile(path) == HasSuffix(path, SpinSuffix)

\* index of the last path separator, 0 when there is none
LastSep(path) ==
    LET S == {k \in 1..Len(path) : path[k] = "/"}
    IN  IF S = {} THEN 0 ELSE CHOOSE k \in S : \A j \in S : j <= k

\* the elements of a path between its separators
RECURSIVE SplitPath(_)
SplitPath(path) ==
    LET S == {k \in 1..Len(path) : path[k] = "/"}
    IN  IF S = {} THEN <<path>>
        ELSE LET k == CHOOSE x \in S : \A j \in S : x <= j
             IN  <<SubSeq(path, 1, k - 1)>> \o
                 SplitPath(SubSeq(path, k + 1, Len(path)))

\* filepath.Clean's element pass: drop empty and ".", resolve ".."
RECURSIVE CleanElems(_, _, _)
CleanElems(elems, out, rooted) ==
    IF elems = <<>> THEN out
    ELSE LET e == Head(elems)
             r == Tail(elems)
         IN  IF e = <<>> \/ e = <<".">>
               THEN CleanElems(r, out, rooted)
             ELSE IF e = <<".", ".">>
               THEN IF out # <<>> /\ out[Len(out)] # <<".", ".">>
                      THEN CleanElems(r, SubSeq(out, 1, Len(out) - 1), rooted)
                    ELSE IF rooted
                      THEN CleanElems(r, out, rooted)
                    ELSE CleanElems(r, Append(out, e), rooted)
             ELSE CleanElems(r, Append(out, e), rooted)

RECURSIVE JoinElems(_)
JoinElems(elems) ==
    IF elems = <<>> THEN <<>>
    ELSE IF Len(elems) = 1 THEN elems[1]
    ELSE elems[1] \o <<"/">> \o JoinElems(Tail(elems))

IsAbs(path) == path # <<>> /\ path[1] = "/"

\* filepath.Clean
Clean(path) ==
    IF path = <<>> THEN <<".">>
    ELSE LET rooted == IsAbs(path)
             body == JoinElems(CleanElems(SplitPath(path), <<>>, rooted))
             out == IF rooted THEN <<"/">> \o body ELSE body
         IN  IF out = <<>> THEN <<".">> ELSE out

\* filepath.Dir
Dir(path) == Clean(SubSeq(path, 1, LastSep(path)))

\* filepath.Join of two elements
Join(a, b) ==
    IF a # <<>> THEN Clean(a \o <<"/">> \o b)
    ELSE IF b # <<>> THEN Clean(b)
    ELSE <<>>

\* working directories os.Getwd may report to filepath.Abs
WorkDirs == {<<"/">>, <<"/", "w">>}
GetwdError == <<"getwd failed">>

\* filepath.Abs: the (path, error) pairs it can return
Abs(path) ==
    IF IsAbs(path) THEN {[path |-> Clean(path), err |-> <<>>]}
    ELSE {[path |-> Join(wd, path), err |-> <<>>] : wd \in WorkDirs}
         \cup {[path |-> <<>>, err |-> GetwdError]}

\* input paths
PathDirs == {<<>>, <<"/">>, <<"d", "/">>, <<"/", "d", "/">>, <<".", ".", "/">>}
PathStems == {<<>>, <<"a">>}
PathExts == {SpinSuffix, <<".", "s", "p", "i">>, <<>>,
             <<".", "s", "p", "i", "n", "x">>, <<"s", "p", "i", "n">>,
             <<".", "s", "p", "i", "n", "/">>}
Paths == {d \o s \o e : d \in PathDirs, s \in PathStems, e \in PathExts}

\* a nil pointer or error, and a pointer to x
NilPtr == <<>>
Ptr(x) == <<x>>

\* config.New: the configurations and errors it can return
PackagesFields == {<<"p">>, <<>>, <<"s", "/", "p">>, <<".", ".", "/", "p">>,
                   <<"/", "p">>}
Configurations == {[Image |-> [Packages |-> f]] : f \in PackagesFields}
ConfigErrors == {<<"config load failed">>}

\* parser.Parse: the stacks and errors it can leave
Stacks == {<<>>, <<OpRepo("a", "u1")>>,
           <<OpPackage("p1", FALSE), OpPackage("p2", FALSE)>>}
ParseErrors == {<<"package list parse failed">>}

\* fmt.Errorf("Not a .spin file: %v", spinFile)
NotSpinError(path) == <<"Not a .spin file: ">> \o path

(***************************************************************************)
(* pkg.Manager calls: the record a call leaves in the call log             *)
(***************************************************************************)
AddRepoCall(n, u, e) == [method |-> "AddRepo", name |-> n, uri |-> u, err |-> e]
InstallGroupsCall(s, ns, e) ==
    [method |-> "InstallGroups", ignoreSafety |-> s, names |-> ns, err |-> e]
InstallPackagesCall(s, ns, e) ==
    [method |-> "InstallPackages", ignoreSafety |-> s, names |-> ns, err |-> e]

(***************************************************************************)
(* ApplyOperations                                                         *)
(***************************************************************************)
\* the len(ops) == 0 check and the case the type switch on ops[0] selects
DispatchEmptyAsDefault(o) ==
    IF Len(o) = 0 THEN "default"
    ELSE IF o[1].kind = "OpRepo" THEN "repo"
    ELSE IF o[1].kind = "OpGroup" THEN "group"
    ELSE IF o[1].kind = "OpPackage" THEN "package"
    ELSE "default"

DispatchDefaultRepo(o) ==
    IF Len(o) = 0 THEN "empty"
    ELSE IF o[1].kind = "OpGroup" THEN "group"
    ELSE IF o[1].kind = "OpPackage" THEN "package"
    ELSE "repo"

Dispatch(o) ==
    IF Len(o) = 0 THEN "empty"
    ELSE IF o[1].kind = "OpRepo" THEN "repo"
    ELSE IF o[1].kind = "OpGroup" THEN "group"
    ELSE IF o[1].kind = "OpPackage" THEN "package"
    ELSE "default"

\* manager.AddRepo(repo.RepoName, repo.RepoURI) returning e
RepoCallSwapped(op, e) == AddRepoCall(op.RepoURI, op.RepoName, e)

RepoCall(op, e) == AddRepoCall(op.RepoName, op.RepoURI, e)

\* the flag the batched calls take
GroupIgnoreSafetyLast(o) == o[Len(o)].IgnoreSafety

GroupIgnoreSafety(o) == o[1].IgnoreSafety

PackageIgnoreSafety(o) == o[1].IgnoreSafety

\* names = append(names, ...)
GroupNamesAppend(ns, n) == Append(ns, n)

PackageNamesPrepend(ns, n) == <<n>> \o ns

PackageNamesAppend(ns, n) == Append(ns, n)

Return(e) == /\ pc' = "applied"
             /\ ret' = e

\* entry, len(ops) == 0 check and the type switch
ApplyOperations(o) ==
    /\ pc = "idle"
    /\ ops' = o
    /\ idx' = 1
    /\ names' = <<>>
    /\ calls' = <<>>
    /\ CASE Dispatch(o) = "empty" -> Return(ErrNotEnoughOps)
         [] Dispatch(o) = "default" -> Return(ErrUnknownOperation)
         [] OTHER -> pc' = Dispatch(o) /\ ret' = "none"
    /\ UNCHANGED <<repos, loadVars>>

\* one iteration of the OpRepo loop, or the return nil after it
RepoLoopNoAbort ==
    /\ pc = "repo"
    /\ IF idx > Len(ops)
         THEN /\ Return(nil)
              /\ UNCHANGED <<idx, calls, repos>>
         ELSE IF ops[idx].kind # "OpRepo"
           THEN /\ pc' = "panicked"
                /\ UNCHANGED <<idx, calls, repos, ret>>
           ELSE \E e \in {nil} \cup ManagerErrors :
                  /\ calls' = Append(calls, RepoCall(ops[idx], e))
                  /\ repos' = IF e = nil
                                THEN repos \cup
                                  {<<ops[idx].RepoName, ops[idx].RepoURI>>}
                                ELSE repos
                  /\ idx' = idx + 1
                  /\ UNCHANGED <<pc, ret>>
    /\ UNCHANGED <<ops, names, loadVars>>

RepoLoop ==
    /\ pc = "repo"
    /\ IF idx > Len(ops)
         THEN /\ Return(nil)
              /\ UNCHANGED <<idx, calls, repos>>
         ELSE IF ops[idx].kind # "OpRepo"
           THEN \* op.(*spec.OpRepo) panics
                /\ pc' = "panicked"
                /\ UNCHANGED <<idx, calls, repos, ret>>
           ELSE \E e \in {nil} \cup ManagerErrors :
                  /\ calls' = Append(calls, RepoCall(ops[idx], e))
                  /\ IF e # nil
                       THEN /\ Return(e)
                            /\ UNCHANGED <<idx, repos>>
                       ELSE /\ repos' = repos \cup
                                  {<<ops[idx].RepoName, ops[idx].RepoURI>>}
                            /\ idx' = idx + 1
                            /\ UNCHANGED <<pc, ret>>
    /\ UNCHANGED <<ops, names, loadVars>>

\* one iteration of the OpGroup name loop, or the batched call after it
GroupLoop ==
    /\ pc = "group"
    /\ IF idx > Len(ops)
         THEN \E e \in {nil} \cup ManagerErrors :
                /\ calls' = Append(calls,
                       InstallGroupsCall(GroupIgnoreSafety(ops), names, e))
                /\ Return(e)
                /\ UNCHANGED <<idx, names>>
         ELSE IF ops[idx].kind # "OpGroup"
           THEN /\ pc' = "panicked"
                /\ UNCHANGED <<idx, names, calls, ret>>
           ELSE /\ names' = GroupNamesAppend(names, ops[idx].GroupName)
                /\ idx' = idx + 1
                /\ UNCHANGED <<pc, calls, ret>>
    /\ UNCHANGED <<ops, repos, loadVars>>

\* one iteration of the OpPackage name loop, or the batched call after it
PackageLoop ==
    /\ pc = "package"
    /\ IF idx > Len(ops)
         THEN \E e \in {nil} \cup ManagerErrors :
                /\ calls' = Append(calls,
                       InstallPackagesCall(PackageIgnoreSafety(ops), names, e))
                /\ Return(e)
                /\ UNCHANGED <<idx, names>>
         ELSE IF ops[idx].kind # "OpPackage"
           THEN /\ pc' = "panicked"
                /\ UNCHANGED <<idx, names, calls, ret>>
           ELSE /\ names' = PackageNamesAppend(names, ops[idx].Name)
                /\ idx' = idx + 1
                /\ UNCHANGED <<pc, calls, ret>>
    /\ UNCHANGED <<ops, repos, loadVars>>

(***************************************************************************)
(* NewImageSpec                                                            *)
(***************************************************************************)
LoadCall(f, a, r, e) == [fn |-> f, arg |-> a, out |-> r, err |-> e]

\* return (spec, err) to the caller
LoadReturn(sp, e) == /\ pc' = "loaded"
                     /\ lret' = [spec |-> sp, err |-> e]

\* the ImageSpec the success path builds: Stack and Config are set, BaseDir
\* keeps its zero value
NewSpecNoStack(stack, c, base) ==
    [Stack |-> <<>>, Config |-> c, BaseDir |-> <<>>]

NewSpec(stack, c, base) == [Stack |-> stack, Config |-> c, BaseDir |-> <<>>]

\* entry: is := &ImageSpec{} and the suffix check
NewImageSpec(path) ==
    /\ pc = "idle"
    /\ spinFile' = path
    /\ is' = [BaseDir |-> <<>>]
    /\ conf' = NilPtr
    /\ pkgsFile' = <<>>
    /\ lcalls' = <<>>
    /\ IF ~IsSpinFile(path)
         THEN LoadReturn(NilPtr, NotSpinError(path))
         ELSE pc' = "config" /\ lret' = [spec |-> NilPtr, err |-> <<"none">>]
    /\ UNCHANGED <<applyVars, repos>>

\* conf, err := config.New(spinFile)
ConfigNew ==
    /\ pc = "config"
    /\ \/ \E e \in ConfigErrors :
            /\ lcalls' = Append(lcalls,
                   LoadCall("config.New", spinFile, NilPtr, e))
            /\ LoadReturn(NilPtr, e)
            /\ UNCHANGED conf
       \/ \E c \in Configurations :
            /\ lcalls' = Append(lcalls,
                   LoadCall("config.New", spinFile, Ptr(c), NilPtr))
            /\ conf' = Ptr(c)
            /\ pc' = "basedir"
            /\ UNCHANGED lret
    /\ UNCHANGED <<spinFile, is, pkgsFile, applyVars, repos>>

\* is.BaseDir, err = filepath.Abs(filepath.Dir(spinFile))
ResolveBaseDir ==
    /\ pc = "basedir"
    /\ \E r \in Abs(Dir(spinFile)) :
         /\ lcalls' = Append(lcalls,
                LoadCall("filepath.Abs", Dir(spinFile), r.path, r.err))
         /\ is' = [is EXCEPT !.BaseDir = r.path]
         /\ IF r.err # NilPtr
              THEN LoadReturn(NilPtr, r.err)
              ELSE pc' = "parse" /\ UNCHANGED lret
    /\ UNCHANGED <<spinFile, conf, pkgsFile, applyVars, repos>>

\* pkgsFile := filepath.Join(...); parser.Parse(pkgsFile); the final return
ParsePackages ==
    /\ pc = "parse"
    /\ pkgsFile' = Join(is.BaseDir, conf[1].Image.Packages)
    /\ \/ \E e \in ParseErrors :
            /\ lcalls' = Append(lcalls,
                   LoadCall("parser.Parse", pkgsFile', <<>>, e))
            /\ LoadReturn(NilPtr, e)
       \/ \E st \in Stacks :
            /\ lcalls' = Append(lcalls,
                   LoadCall("parser.Parse", pkgsFile', st, NilPtr))
            /\ LoadReturn(Ptr(NewSpec(st, conf, is.BaseDir)), NilPtr)
    /\ UNCHANGED <<spinFile, conf, is, applyVars, repos>>

\* the caller takes the result (or recovers the panic) and goes on
Caller ==
    /\ pc \in {"applied", "panicked", "loaded"}
    /\ pc' = "idle"
    /\ ops' = <<>> /\ idx' = 1 /\ names' = <<>> /\ calls' = <<>> /\ ret' = "none"
    /\ spinFile' = <<>> /\ conf' = NilPtr /\ is' = [BaseDir |-> <<>>]
    /\ pkgsFile' = <<>> /\ lcalls' = <<>>
    /\ lret' = [spec |-> NilPtr, err |-> <<"none">>]
    /\ UNCHANGED repos

Init ==
    /\ pc = "idle"
    /\ ops = <<>> /\ idx = 1 /\ names = <<>> /\ calls = <<>> /\ ret = "none"
    /\ repos = {}
    /\ spinFile = <<>> /\ conf = NilPtr /\ is = [BaseDir |-> <<>>]
    /\ pkgsFile = <<>> /\ lcalls = <<>>
    /\ lret = [spec |-> NilPtr, err |-> <<"none">>]

Next ==
    \/ pc = "idle" /\ \E o \in OpLists : ApplyOperations(o)
    \/ RepoLoop
    \/ GroupLoop
    \/ PackageLoop
    \/ pc = "idle" /\ \E path \in Paths : NewImageSpec(path)
    \/ ConfigNew
    \/ ResolveBaseDir
    \/ ParsePackages
    \/ Caller

Spec == Init /\ [][Next]_vars

(***************************************************************************)
(* Properties                                                              *)
(***************************************************************************)
InApply == pc \in {"repo", "group", "package", "applied", "panicked"}
InLoad == pc \in {"config", "basedir", "parse", "loaded"}
Finished == pc \in {"applied", "panicked"}

\* a non-empty list whose elements are all of kind k
IsKind(o, k) == o # <<>> /\ \A j \in 1..Len(o) : o[j].kind = k

KnownKinds == {"OpRepo", "OpGroup", "OpPackage"}

\* first element of a known kind, some later element of another variant
IsMixed(o) ==
    /\ o # <<>>
    /\ o[1].kind \in KnownKinds
    /\ \E j \in 2..Len(o) : o[j].kind # o[1].kind

\* C1: on a non-empty list of RepoOps, AddRepo is called once per element in
\* list order with that element's (name, uri); when a call fails, that error
\* is what ApplyOperations returns, no later element is attempted, and the
\* repositories added before it stay added.
C1_RepoOpsOneCallEachInOrder ==
    (InApply /\ IsKind(ops, "OpRepo")) =>
        /\ pc # "panicked"
        /\ Len(calls) <= Len(ops)
        /\ \A j \in 1..Len(calls) :
             /\ calls[j] = AddRepoCall(ops[j].RepoName, ops[j].RepoURI,
                                       calls[j].err)
             /\ j < Len(calls) => calls[j].err = nil
             /\ calls[j].err = nil =>
                  <<ops[j].RepoName, ops[j].RepoURI>> \in repos
        /\ pc = "repo" => (calls = <<>> \/ calls[Len(calls)].err = nil)
        /\ pc = "applied" =>
             /\ calls # <<>>
             /\ ret = calls[Len(calls)].err
             /\ ret = nil => Len(calls) = Len(ops)

C1_Witness ==
    /\ pc = "applied"
    /\ IsKind(ops, "OpRepo")
    /\ Len(ops) = 3
    /\ Len(calls) = 2
    /\ ret \in ManagerErrors
    /\ <<ops[1].RepoName, ops[1].RepoURI>> \in repos
    /\ ops[1] # ops[2]

\* C2: on a non-empty list of GroupOps, the only manager call is one
\* InstallGroups(flag of the first element, all group names in list order),
\* and its result is what ApplyOperations returns.
C2_GroupOpsOneBatchedCall ==
    (InApply /\ IsKind(ops, "OpGroup")) =>
        /\ pc # "panicked"
        /\ pc = "group" => calls = <<>>
        /\ pc = "applied" =>
             calls = <<InstallGroupsCall(ops[1].IgnoreSafety,
                          [j \in 1..Len(ops) |-> ops[j].GroupName], ret)>>

C2_Witness ==
    /\ pc = "applied"
    /\ IsKind(ops, "OpGroup")
    /\ Len(ops) >= 2
    /\ ops[Len(ops)].IgnoreSafety # ops[1].IgnoreSafety
    /\ ops[1].GroupName # ops[2].GroupName
    /\ Len(calls) = 1

\* C3: on a non-empty list of PackageOps, the only manager call is one
\* InstallPackages(flag of the first element, all package names in list
\* order), and its result is what ApplyOperations returns.
C3_PackageOpsOneBatchedCall ==
    (InApply /\ IsKind(ops, "OpPackage")) =>
        /\ pc # "panicked"
        /\ pc = "package" => calls = <<>>
        /\ pc = "applied" =>
             calls = <<InstallPackagesCall(ops[1].IgnoreSafety,
                          [j \in 1..Len(ops) |-> ops[j].Name], ret)>>

C3_Witness ==
    /\ pc = "applied"
    /\ IsKind(ops, "OpPackage")
    /\ Len(ops) >= 2
    /\ ops[Len(ops)].IgnoreSafety # ops[1].IgnoreSafety
    /\ ops[1].Name # ops[2].Name
    /\ Len(calls) = 1
    /\ ret \in ManagerErrors

\* C4: on an empty list ApplyOperations returns ErrNotEnoughOps without any
\* manager call, whatever state the manager is in.
C4_EmptyListFails ==
    (InApply /\ ops = <<>>) =>
        /\ pc = "applied"
        /\ ret = ErrNotEnoughOps
        /\ calls = <<>>

C4_Witness ==
    /\ pc = "applied"
    /\ ops = <<>>
    /\ ret = ErrNotEnoughOps
    /\ repos # {}

\* C5: when the first element is none of RepoOp, GroupOp, PackageOp,
\* ApplyOperations returns ErrUnknownOperation without any manager call,
\* whatever the other elements are.
C5_UnknownFirstElementFails ==
    (InApply /\ ops # <<>> /\ ops[1].kind \notin KnownKinds) =>
        /\ pc = "applied"
        /\ ret = ErrUnknownOperation
        /\ calls = <<>>

C5_Witness ==
    /\ pc = "applied"
    /\ Len(ops) >= 2
    /\ ops[1] = OpOther
    /\ ops[2].kind = "OpRepo"
    /\ ret = ErrUnknownOperation

\* C6: on a mixed list (first element of a known kind, a later element of a
\* different variant) ApplyOperations ends by returning ErrUnknownOperation.
C6_MixedListReturnsUnknownOperation ==
    (Finished /\ IsMixed(ops)) =>
        /\ pc = "applied"
        /\ ret = ErrUnknownOperation

\* what an operation asks of the manager, and what a call gave it
OpItem(op) ==
    CASE op.kind = "OpRepo" -> <<"repo", op.RepoName, op.RepoURI>>
      [] op.kind = "OpGroup" -> <<"group", op.GroupName>>
      [] op.kind = "OpPackage" -> <<"package", op.Name>>
      [] OTHER -> <<"other">>

CallItems(c) ==
    CASE c.method = "AddRepo" -> <<<<"repo", c.name, c.uri>>>>
      [] c.method = "InstallGroups" ->
           [j \in 1..Len(c.names) |-> <<"group", c.names[j]>>]
      [] OTHER -> [j \in 1..Len(c.names) |-> <<"package", c.names[j]>>]

RECURSIVE AllCallItems(_)
AllCallItems(cs) ==
    IF cs = <<>> THEN <<>> ELSE CallItems(Head(cs)) \o AllCallItems(Tail(cs))

\* C7: when ApplyOperations returns nil, the arguments of the manager calls
\* of that invocation are the list's elements, in list order, each exactly
\* once; when it returns an error, no manager call follows the failing one.
C7_SuccessAppliedAllFailureStops ==
    InApply =>
        /\ \A j \in 1..(Len(calls) - 1) : calls[j].err = nil
        /\ (pc = "applied" /\ ret = nil) =>
             AllCallItems(calls) = [j \in 1..Len(ops) |-> OpItem(ops[j])]
        /\ (pc = "applied" /\ ret # nil) =>
             calls = <<>> \/ calls[Len(calls)].err = ret

C7_Witness ==
    /\ pc = "applied"
    /\ ret = nil
    /\ Len(ops) = 3
    /\ ops[1] = ops[3]
    /\ ops[1] # ops[2]
    /\ IsKind(ops, "OpRepo")

\* C8: for a path without the ".spin" suffix NewImageSpec returns no
\* ImageSpec and an error naming the path, and calls neither config.New,
\* filepath.Abs nor parser.Parse.
C8_NotSpinFileRejected ==
    (InLoad /\ ~HasSuffix(spinFile, SpinSuffix)) =>
        /\ pc = "loaded"
        /\ lret.spec = NilPtr
        /\ lret.err # NilPtr
        /\ Len(lret.err) = Len(spinFile) + 1
        /\ HasSuffix(lret.err, spinFile)
        /\ lcalls = <<>>

C8_Witness ==
    /\ pc = "loaded"
    /\ spinFile = <<"/", "d", "/", "a", "s", "p", "i", "n">>
    /\ lret.spec = NilPtr
    /\ lcalls = <<>>

\* C9: the ImageSpec a successful NewImageSpec returns carries the base
\* directory the loader resolved, so that joining it with Config's packages
\* field gives the path the loader passed to parser.Parse.
C9_ReturnedBaseDirRoundTrip ==
    (pc = "loaded" /\ lret.err = NilPtr) =>
        /\ lret.spec[1].BaseDir = is.BaseDir
        /\ Join(lret.spec[1].BaseDir,
                lret.spec[1].Config[1].Image.Packages) = pkgsFile

LoadOrder == <<"config.New", "filepath.Abs", "parser.Parse">>

\* C10: NewImageSpec runs suffix check, config.New, filepath.Abs,
\* parser.Parse in that order and stops at the first failure, returning that
\* failure's error unchanged and no ImageSpec; an ImageSpec is returned only
\* when all steps succeeded, holding the parser's stack and the loaded
\* configuration.
C10_LoadStepsInOrderStopAtFirstFailure ==
    InLoad =>
        /\ Len(lcalls) <= 3
        /\ \A j \in 1..Len(lcalls) :
             /\ lcalls[j].fn = LoadOrder[j]
             /\ j < Len(lcalls) => lcalls[j].err = NilPtr
        /\ lcalls # <<>> => HasSuffix(spinFile, SpinSuffix)
        /\ Len(lcalls) >= 1 => lcalls[1].arg = spinFile
        /\ Len(lcalls) >= 3 =>
             lcalls[3].arg = Join(lcalls[2].out, lcalls[1].out[1].Image.Packages)
        /\ pc = "config" => lcalls = <<>>
        /\ pc = "basedir" => Len(lcalls) = 1 /\ lcalls[1].err = NilPtr
        /\ pc = "parse" => Len(lcalls) = 2 /\ lcalls[2].err = NilPtr
        /\ pc = "loaded" =>
             /\ (lret.spec = NilPtr) <=> (lret.err # NilPtr)
             /\ lcalls # <<>> => lret.err = lcalls[Len(lcalls)].err
             /\ lret.err = NilPtr =>
                  /\ Len(lcalls) = 3
                  /\ lret.spec[1].Stack = lcalls[3].out
                  /\ lret.spec[1].Config = lcalls[1].out

C10_Witness ==
    /\ pc = "loaded"
    /\ lret.err = NilPtr
    /\ Len(lcalls) = 3
    /\ lret.spec[1].Stack # <<>>
    /\ lret.spec[1].Config[1].Image.Packages = <<"s", "/", "p">>
====
